---- MODULE Spec2Model ----
(***************************************************************************)
(* Model of WebsocketRecorder (src/websocket_recorder.py): the callbacks   *)
(* __init__, opened, received_message and closed acting on the wall clock, *)
(* the file system, the file objects the recorder creates, the sequence    *)
(* counter and the full_message template.                                  *)
(*                                                                         *)
(* Encoding.  The wall clock is an integer tick count; a day has           *)
(* TicksPerDay ticks.  strftime turns a clock reading into a pair <<date,  *)
(* time of day>>; the "first ten characters" of a formatted timestamp are  *)
(* its date component.  A path is a record of its directory, the date part *)
(* of its base name, ws_name, hostname and extension.  Text payloads are   *)
(* sequences of one-character strings.  A line of a file is the mapping    *)
(* that json.dumps(..., sort_keys=True) serialises (sorted keys make the   *)
(* line a function of the mapping).  A file's content is the sequence of   *)
(* lines written through handles on it.                                    *)
(***************************************************************************)
EXTENDS Integers, Sequences, FiniteSets, TLC

VARIABLES
    constructed,        \* TRUE once __init__ has run
    now,                \* the wall clock, datetime.datetime.now()
    files,              \* the data directory: path -> sequence of lines
    handles,            \* the file objects created so far: [name, closed]
    data_file,          \* self.data_file, an index into handles (0: unset)
    msg_seq_no,         \* self.msg_seq_no
    full_message,       \* self.full_message
    initial_msg_out,    \* self.initial_msg_out
    sent,               \* messages passed to self.send, in order
    opened_called,      \* the collaborator has called opened()
    closed_called,      \* the collaborator has called closed()
    rotations,          \* number of times the rotation branch was entered
    err,                \* outcome of the last callback: "none" or the exception raised
    lastOp,             \* the last step taken
    delivered,          \* history: the events passed to received_message
    written,            \* history: the successful data_file.write calls
    threads             \* the calls of received_message in progress, one per thread

vars == <<constructed, now, files, handles, data_file, msg_seq_no, full_message,
          initial_msg_out, sent, opened_called, closed_called, rotations, err, lastOp,
          delivered, written, threads>>

-----------------------------------------------------------------------------
(* Bounds *)

TicksPerDay == 2        \* clock ticks per calendar day
MaxNow == 2             \* last clock reading explored
MaxMsgs == 2            \* number of received_message calls explored
MaxOld == 1             \* lines a previous session may have left in today's file
MaxPayloadLen == 3      \* longest payload explored by SpecPayload

-----------------------------------------------------------------------------
(* Constructor arguments of the session *)

data_dir == "/tmp/rec"
url == "ws://feed"
ws_name == "feedA"
hostname == "hostX"
pid == "4242"

\* extra_data: empty, or one key (here colliding with a built-in one, which
\* update overwrites)
ExtraDatas == { <<>>, <<"url", "ws://other">> }

\* initial_msg_out: no subscription message, or two
InitialMsgOuts == { <<>>, <<"sub1", "sub2">> }

\* websocket payloads; "\n" is the newline character
Payloads == { <<"a">>, <<"b", "\n">> }

\* every text over a three-character alphabet with the newline, up to MaxPayloadLen
Alphabet == { "a", "b", "\n" }
AllPayloads == UNION { [1..n -> Alphabet] : n \in 0..MaxPayloadLen }

CloseCodes == { 1000 }

\* placeholders for the three per-record keys before the first event (None)
NoneSeqNo == -1
NoneTs == <<-1, -1>>
NoneMsg == <<"None">>

-----------------------------------------------------------------------------
(* Clock and strings *)

\* strftime('%Y-%m-%d %H:%M:%S.%f UTC'): <<date, time of day>>
Strftime(t) == <<t \div TicksPerDay, t % TicksPerDay>>

\* strftime("%Y-%m-%d")
DatePart(t) == t \div TicksPerDay

\* ts_utc[0:10]
TsFirst10(ts) == ts[1]

\* data_dir + "/" + date_part + "_" + ws_name + "_" + hostname + ".json.open"
generate_filename(t) ==
    [dir |-> data_dir, date |-> DatePart(t), ws |-> ws_name, host |-> hostname,
     ext |-> ".json.open"]

\* os.path.basename(path)
Basename(p) == [date |-> p.date, ws |-> p.ws, host |-> p.host, ext |-> p.ext]

\* basename[0:10]
NameFirst10(b) == b.date

RECURSIVE ReplaceNewlinesBySpace(_)
\* str(websocket_msg).replace("\n", " ")
ReplaceNewlinesBySpace(s) ==
    IF s = <<>> THEN <<>>
    ELSE IF Head(s) = "\n" THEN <<" ">> \o ReplaceNewlinesBySpace(Tail(s))
    ELSE <<Head(s)>> \o ReplaceNewlinesBySpace(Tail(s))

RECURSIVE StripNewlines(_)
\* str(websocket_msg).replace("\n", "")
StripNewlines(s) ==
    IF s = <<>> THEN <<>>
    ELSE IF Head(s) = "\n" THEN StripNewlines(Tail(s))
    ELSE <<Head(s)>> \o StripNewlines(Tail(s))

\* current_path.replace(".open"): str.replace needs at least two arguments,
\* so the call raises TypeError and yields no value
ReplaceOpen(p) == [err |-> "TypeError", val |-> p]

-----------------------------------------------------------------------------
(* Files *)

\* open(path, "w"): the file is created or truncated
OpenTruncate(fs, p) == [q \in DOMAIN fs \cup {p} |-> IF q = p THEN <<>> ELSE fs[q]]

\* open(path, "a"): the file is created when absent, its content kept otherwise
OpenAppend(fs, p) == [q \in DOMAIN fs \cup {p} |-> IF q \in DOMAIN fs THEN fs[q] ELSE <<>>]

\* file.close(): closing a closed file is a no-op
FileClose(hs, i) == [hs EXCEPT ![i].closed = TRUE]

\* file.write on a closed file that appends all the same
FileWriteIgnoringClosed(fs, h, line) ==
    [err |-> "none", files |-> [fs EXCEPT ![h.name] = Append(@, line)]]

\* file.write(line): ValueError on a closed file, otherwise the line is appended
FileWrite(fs, h, line) ==
    IF h.closed
    THEN [err |-> "ValueError", files |-> fs]
    ELSE [err |-> "none", files |-> [fs EXCEPT ![h.name] = Append(@, line)]]

\* os.rename(src, dst): dst is replaced when it exists
OsRename(fs, src, dst) ==
    IF src \notin DOMAIN fs
    THEN [err |-> "OSError", files |-> fs]
    ELSE [err |-> "none",
          files |-> [q \in (DOMAIN fs \ {src}) \cup {dst} |->
                        IF q = dst THEN fs[src] ELSE fs[q]]]

\* a line left in the data directory by an earlier session
OldLine ==
    [k \in {"msg_seq_no", "url", "machine_id", "pid", "ws_name", "session_start",
            "ts_utc", "websocket_msg"} |->
        CASE k = "msg_seq_no" -> 1
          [] k = "url" -> url
          [] k = "machine_id" -> hostname
          [] k = "pid" -> "4000"
          [] k = "ws_name" -> ws_name
          [] k = "session_start" -> <<-1, 0>>
          [] k = "ts_utc" -> <<0, 0>>
          [] k = "websocket_msg" -> <<"o">>]

\* the data directory before the session: empty, or the first day's file left
\* with its ".open" suffix by an earlier session (closed() does not rename)
OldFiles ==
    { <<>>, [p \in {generate_filename(0)} |-> [i \in 1..MaxOld |-> OldLine]] }

-----------------------------------------------------------------------------
(* The template *)

BuiltinKeys ==
    {"msg_seq_no", "url", "machine_id", "pid", "ws_name", "session_start",
     "ts_utc", "websocket_msg"}

\* dict(msg_seq_no=None, url=..., ..., websocket_msg=None)
Template(t) ==
    [k \in BuiltinKeys |->
        CASE k = "msg_seq_no" -> NoneSeqNo
          [] k = "url" -> url
          [] k = "machine_id" -> hostname
          [] k = "pid" -> pid
          [] k = "ws_name" -> ws_name
          [] k = "session_start" -> Strftime(t)
          [] k = "ts_utc" -> NoneTs
          [] k = "websocket_msg" -> NoneMsg]

\* if len(extra_data) > 0: full_message.update(extra_data)
DictUpdate(d, extra) ==
    IF Len(extra) > 0
    THEN [k \in DOMAIN d \cup {extra[1]} |-> IF k = extra[1] THEN extra[2] ELSE d[k]]
    ELSE d

-----------------------------------------------------------------------------
(* Threads calling received_message *)

Threads == { 1, 2 }

\* no call in progress: every thread is outside received_message
NoCalls ==
    [loc |-> [t \in Threads |-> [pc |-> "idle", msg |-> <<>>, tmp |-> 0, seq |-> 0,
                                 ts |-> NoneTs, same_day |-> FALSE]],
     calls |-> 0,
     overlapped |-> FALSE]

-----------------------------------------------------------------------------
(* Initial state: before construction *)

Init ==
    /\ constructed = FALSE
    /\ now = 0
    /\ files \in OldFiles
    /\ handles = <<>>
    /\ data_file = 0
    /\ msg_seq_no = 0
    /\ full_message = <<>>
    /\ initial_msg_out = <<>>
    /\ sent = <<>>
    /\ opened_called = FALSE
    /\ closed_called = FALSE
    /\ rotations = 0
    /\ err = "none"
    /\ lastOp = "start"
    /\ delivered = <<>>
    /\ written = <<>>
    /\ threads = NoCalls

-----------------------------------------------------------------------------
(* The callbacks *)

\* __init__(data_dir, url, initial_msg_out, ..., extra_data).  The clock is
\* read by generate_filename and again for session_start; it may advance
\* between the two reads.
WebsocketRecorder_init(imo, extra_data) ==
    /\ ~constructed
    /\ \E t2 \in {now, now + 1} :
        /\ t2 <= MaxNow
        /\ LET p == generate_filename(now) IN
            /\ files' = OpenAppend(files, p)
            /\ handles' = Append(handles, [name |-> p, closed |-> FALSE])
            /\ data_file' = Len(handles) + 1
            /\ full_message' = DictUpdate(Template(t2), extra_data)
        /\ now' = t2
    /\ initial_msg_out' = imo
    /\ msg_seq_no' = 0
    /\ constructed' = TRUE
    /\ err' = "none"
    /\ lastOp' = "__init__"
    /\ UNCHANGED <<sent, opened_called, closed_called, rotations, delivered, written,
                   threads>>

\* get_msg_seq_no on a counter that starts again at 0 after 1
get_msg_seq_no_wrapping(n) == (n + 1) % 2

\* get_msg_seq_no that advances the counter by two
get_msg_seq_no_skipping(n) == n + 2

\* get_msg_seq_no: self.msg_seq_no += 1; return self.msg_seq_no
get_msg_seq_no(n) == n + 1

RECURSIVE SendAllLastFirst(_, _)
\* the loop of opened() walking the list from its end
SendAllLastFirst(out, msgs) ==
    IF msgs = <<>> THEN out
    ELSE SendAllLastFirst(Append(out, msgs[Len(msgs)]), SubSeq(msgs, 1, Len(msgs) - 1))

RECURSIVE SendAll(_, _)
\* for message in self.initial_msg_out: self.send(message)
SendAll(out, msgs) ==
    IF msgs = <<>> THEN out
    ELSE SendAll(Append(out, Head(msgs)), Tail(msgs))

\* opened(): every message of initial_msg_out is passed to send, in order.
\* The collaborator calls opened once per connection.
opened ==
    /\ constructed
    /\ ~opened_called
    /\ sent' = IF Len(initial_msg_out) > 0 THEN SendAll(sent, initial_msg_out) ELSE sent
    /\ opened_called' = TRUE
    /\ err' = "none"
    /\ lastOp' = "opened"
    /\ UNCHANGED <<constructed, now, files, handles, data_file, msg_seq_no,
                   full_message, initial_msg_out, closed_called, rotations,
                   delivered, written, threads>>

\* closed that also strips the ".open" suffix of the file it closes
closedFinalizing(code) ==
    /\ constructed
    /\ handles' = FileClose(handles, data_file)
    /\ LET p == handles[data_file].name
           r == OsRename(files, p, [p EXCEPT !.ext = ".json"])
       IN files' = r.files
    /\ closed_called' = TRUE
    /\ err' = "none"
    /\ lastOp' = "closed"
    /\ UNCHANGED <<constructed, now, data_file, msg_seq_no, full_message,
                   initial_msg_out, sent, opened_called, rotations, delivered,
                   written, threads>>

\* closed(code, reason): self.data_file.close()
closed(code) ==
    /\ constructed
    /\ handles' = FileClose(handles, data_file)
    /\ closed_called' = TRUE
    /\ err' = "none"
    /\ lastOp' = "closed"
    /\ UNCHANGED <<constructed, now, files, data_file, msg_seq_no, full_message,
                   initial_msg_out, sent, opened_called, rotations, delivered,
                   written, threads>>

\* the three assignments, with session_start stamped anew as well
StampRecordAndSession(d, seq, ts, msg) ==
    [d EXCEPT !["msg_seq_no"] = seq, !["ts_utc"] = ts, !["websocket_msg"] = msg,
              !["session_start"] = ts]

\* full_message['msg_seq_no'] = ...; full_message['ts_utc'] = ...;
\* full_message['websocket_msg'] = ...
StampRecord(d, seq, ts, msg) ==
    [d EXCEPT !["msg_seq_no"] = seq, !["ts_utc"] = ts, !["websocket_msg"] = msg]

\* file.write under a failing disk that tries again until the line is stored
FileWriteIORetrying(fs, h, line, disk_ok) ==
    IF ~disk_ok /\ ~h.closed
    THEN [err |-> "none", files |-> [fs EXCEPT ![h.name] = Append(@, line)]]
    ELSE FileWrite(fs, h, line)

\* file.write(line) on a disk that may refuse the write: the operating
\* system's error is raised (IOError) and nothing is stored
FileWriteIO(fs, h, line, disk_ok) ==
    IF ~disk_ok /\ ~h.closed
    THEN [err |-> "IOError", files |-> fs]
    ELSE FileWrite(fs, h, line)

\* os.rename(src, dst) on a disk that may refuse the rename (OSError)
OsRenameIO(fs, src, dst, disk_ok) ==
    IF ~disk_ok
    THEN [err |-> "OSError", files |-> fs]
    ELSE OsRename(fs, src, dst)

\* the comparison of line 109 taken as "not later than the file's date"
SameDayOrEarlier(ts, name) == TsFirst10(ts) <= NameFirst10(Basename(name))

\* self.full_message['ts_utc'][0:10] == os.path.basename(self.data_file.name)[0:10]
SameDay(ts, name) == TsFirst10(ts) = NameFirst10(Basename(name))

\* the record of a call in the history of delivered events
Delivery(websocket_msg, ts, same_day, disk_ok, e) ==
    [msg |-> websocket_msg, ts |-> ts,
     branch |-> IF same_day THEN "write" ELSE "rotate",
     after_close |-> closed_called, disk_ok |-> disk_ok, err |-> e]

\* received_message(websocket_msg), on a disk that performs the first file
\* operation of the call (disk_ok) or refuses it
ReceivedMessage(websocket_msg, disk_ok) ==
    /\ constructed
    /\ msg_seq_no < MaxMsgs
    /\ LET seq == get_msg_seq_no(msg_seq_no)
           ts == Strftime(now)
           fm == StampRecord(full_message, seq, ts, StripNewlines(websocket_msg))
           h == handles[data_file]
           same_day == SameDay(fm["ts_utc"], h.name)
       IN
        /\ msg_seq_no' = seq
        /\ full_message' = fm
        /\ IF same_day
           THEN \* self.data_file.write(json.dumps(self.full_message, sort_keys=True) + "\n")
                LET w == FileWriteIO(files, h, fm, disk_ok) IN
                /\ files' = w.files
                /\ err' = w.err
                /\ written' = IF w.err = "none"
                              THEN Append(written, [path |-> h.name, line |-> fm])
                              ELSE written
                /\ delivered' = Append(delivered,
                                       Delivery(websocket_msg, ts, same_day, disk_ok, w.err))
                /\ lastOp' = "received_message/write"
                /\ UNCHANGED <<now, handles, data_file, rotations>>
           ELSE \* close, rename without ".open", open the file of the current date, write
                LET current_path == h.name
                    hs1 == FileClose(handles, data_file)
                    rep == ReplaceOpen(current_path)
                IN
                /\ rotations' = rotations + 1
                /\ lastOp' = "received_message/rotate"
                /\ IF rep.err # "none"
                   THEN /\ handles' = hs1
                        /\ err' = rep.err
                        /\ delivered' = Append(delivered,
                                               Delivery(websocket_msg, ts, same_day, disk_ok, rep.err))
                        /\ UNCHANGED <<now, files, data_file, written>>
                   ELSE LET rn == OsRenameIO(files, current_path, rep.val, disk_ok) IN
                        IF rn.err # "none"
                        THEN /\ handles' = hs1
                             /\ files' = rn.files
                             /\ err' = rn.err
                             /\ delivered' = Append(delivered,
                                                    Delivery(websocket_msg, ts, same_day, disk_ok, rn.err))
                             /\ UNCHANGED <<now, data_file, written>>
                        ELSE \E t2 \in {now, now + 1} :
                             /\ t2 <= MaxNow
                             /\ now' = t2
                             /\ LET newp == generate_filename(t2)
                                    nh == [name |-> newp, closed |-> FALSE]
                                    w == FileWrite(OpenAppend(rn.files, newp), nh, fm)
                                IN
                                /\ handles' = Append(hs1, nh)
                                /\ data_file' = Len(hs1) + 1
                                /\ files' = w.files
                                /\ err' = w.err
                                /\ delivered' = Append(delivered,
                                                       Delivery(websocket_msg, ts, same_day, disk_ok, w.err))
                                /\ written' = IF w.err = "none"
                                              THEN Append(written, [path |-> newp, line |-> fm])
                                              ELSE written
    /\ UNCHANGED <<constructed, initial_msg_out, sent, opened_called, closed_called,
                   threads>>

\* received_message(websocket_msg)
received_message(websocket_msg) == ReceivedMessage(websocket_msg, TRUE)

\* received_message(websocket_msg) while the disk refuses the file operation
received_message_io_error(websocket_msg) == ReceivedMessage(websocket_msg, FALSE)

-----------------------------------------------------------------------------
(* The environment: the wall clock *)

\* a clock step that rotates the data file when the date changes
TickRotating ==
    /\ now < MaxNow
    /\ now' = now + 1
    /\ lastOp' = "tick"
    /\ IF constructed /\ DatePart(now + 1) # DatePart(now)
       THEN LET p == generate_filename(now + 1) IN
            /\ files' = OpenAppend(files, p)
            /\ handles' = Append(FileClose(handles, data_file), [name |-> p, closed |-> FALSE])
            /\ data_file' = Len(handles) + 1
       ELSE UNCHANGED <<files, handles, data_file>>
    /\ UNCHANGED <<constructed, msg_seq_no, full_message, initial_msg_out, sent,
                   opened_called, closed_called, rotations, err, delivered, written,
                   threads>>

\* time passes; no code of the recorder runs
Tick ==
    /\ now < MaxNow
    /\ now' = now + 1
    /\ lastOp' = "tick"
    /\ UNCHANGED <<constructed, files, handles, data_file, msg_seq_no, full_message,
                   initial_msg_out, sent, opened_called, closed_called, rotations,
                   err, delivered, written, threads>>

\* the wall clock is set back (datetime.now() is not monotonic)
ClockBack ==
    /\ now > 0
    /\ now' = now - 1
    /\ lastOp' = "clock_back"
    /\ UNCHANGED <<constructed, files, handles, data_file, msg_seq_no, full_message,
                   initial_msg_out, sent, opened_called, closed_called, rotations,
                   err, delivered, written, threads>>

Next ==
    \/ \E imo \in InitialMsgOuts, extra_data \in ExtraDatas :
          WebsocketRecorder_init(imo, extra_data)
    \/ opened
    \/ \E websocket_msg \in Payloads : received_message(websocket_msg)
    \/ \E code \in CloseCodes : closed(code)
    \/ Tick
    \/ ClockBack

Spec == Init /\ [][Next]_vars

-----------------------------------------------------------------------------
(* Payload handling: the first event of a session, with any payload *)

FirstEvent(websocket_msg) ==
    /\ msg_seq_no = 0
    /\ received_message(websocket_msg)

NextPayload ==
    \/ \E imo \in InitialMsgOuts, extra_data \in ExtraDatas :
          WebsocketRecorder_init(imo, extra_data)
    \/ \E websocket_msg \in AllPayloads : FirstEvent(websocket_msg)

SpecPayload == Init /\ [][NextPayload]_vars

-----------------------------------------------------------------------------
(* received_message called from two threads, one statement at a time.  The  *)
(* class holds no lock: a thread may be switched out between any two of the *)
(* loads and stores of lines 80-81 and 103-119.                             *)

\* what no statement of received_message touches
callFrame == <<constructed, now, initial_msg_out, sent, opened_called, closed_called>>

Loc(t) == threads.loc[t]

AtPc(t, pc) == constructed /\ Loc(t).pc = pc

\* thread t enters received_message(websocket_msg)
Call(t, websocket_msg) ==
    /\ AtPc(t, "idle")
    /\ threads.calls < MaxMsgs
    /\ threads' = [loc |-> [threads.loc EXCEPT ![t] =
                               [pc |-> "incr_load", msg |-> websocket_msg, tmp |-> 0,
                                seq |-> 0, ts |-> NoneTs, same_day |-> FALSE]],
                   calls |-> threads.calls + 1,
                   overlapped |-> threads.overlapped
                                    \/ \E u \in Threads \ {t} : Loc(u).pc # "idle"]
    /\ lastOp' = "call"
    /\ UNCHANGED <<callFrame, files, handles, data_file, msg_seq_no, full_message,
                   rotations, err, delivered, written>>

\* line 80, self.msg_seq_no += 1: the load of the attribute
IncrLoad(t) ==
    /\ AtPc(t, "incr_load")
    /\ threads' = [threads EXCEPT !.loc[t].tmp = msg_seq_no, !.loc[t].pc = "incr_store"]
    /\ lastOp' = "incr_load"
    /\ UNCHANGED <<callFrame, files, handles, data_file, msg_seq_no, full_message,
                   rotations, err, delivered, written>>

\* line 80, self.msg_seq_no += 1: the store of the incremented value
IncrStore(t) ==
    /\ AtPc(t, "incr_store")
    /\ msg_seq_no' = get_msg_seq_no(Loc(t).tmp)
    /\ threads' = [threads EXCEPT !.loc[t].pc = "return_seq"]
    /\ lastOp' = "incr_store"
    /\ UNCHANGED <<callFrame, files, handles, data_file, full_message,
                   rotations, err, delivered, written>>

\* line 81, return self.msg_seq_no, and line 103, the store into full_message
ReturnSeq(t) ==
    /\ AtPc(t, "return_seq")
    /\ full_message' = [full_message EXCEPT !["msg_seq_no"] = msg_seq_no]
    /\ threads' = [threads EXCEPT !.loc[t].seq = msg_seq_no, !.loc[t].pc = "set_ts"]
    /\ lastOp' = "return_seq"
    /\ UNCHANGED <<callFrame, files, handles, data_file, msg_seq_no,
                   rotations, err, delivered, written>>

\* line 104
SetTs(t) ==
    /\ AtPc(t, "set_ts")
    /\ full_message' = [full_message EXCEPT !["ts_utc"] = Strftime(now)]
    /\ threads' = [threads EXCEPT !.loc[t].ts = Strftime(now), !.loc[t].pc = "set_msg"]
    /\ lastOp' = "set_ts"
    /\ UNCHANGED <<callFrame, files, handles, data_file, msg_seq_no,
                   rotations, err, delivered, written>>

\* line 105
SetMsg(t) ==
    /\ AtPc(t, "set_msg")
    /\ full_message' = [full_message EXCEPT !["websocket_msg"] = StripNewlines(Loc(t).msg)]
    /\ threads' = [threads EXCEPT !.loc[t].pc = "compare"]
    /\ lastOp' = "set_msg"
    /\ UNCHANGED <<callFrame, files, handles, data_file, msg_seq_no,
                   rotations, err, delivered, written>>

\* line 109: the comparison reads the shared full_message and data_file
Compare(t) ==
    /\ AtPc(t, "compare")
    /\ LET same_day == SameDay(full_message["ts_utc"], handles[data_file].name) IN
       threads' = [threads EXCEPT !.loc[t].same_day = same_day,
                                  !.loc[t].pc = IF same_day THEN "write" ELSE "rotate"]
    /\ lastOp' = "compare"
    /\ UNCHANGED <<callFrame, files, handles, data_file, msg_seq_no, full_message,
                   rotations, err, delivered, written>>

\* what thread t itself was given and read: its counter value, clock reading
\* and payload
Own(t) == [seq |-> Loc(t).seq, ts |-> Loc(t).ts, msg |-> Loc(t).msg]

\* line 110: the shared full_message is serialised and written
Write(t) ==
    /\ AtPc(t, "write")
    /\ LET h == handles[data_file]
           w == FileWrite(files, h, full_message)
       IN /\ files' = w.files
          /\ err' = w.err
          /\ written' = IF w.err = "none"
                        THEN Append(written, [path |-> h.name, line |-> full_message,
                                              own |-> Own(t)])
                        ELSE written
          /\ delivered' = Append(delivered,
                                 Delivery(Loc(t).msg, Loc(t).ts, TRUE, TRUE, w.err))
    /\ threads' = [threads EXCEPT !.loc[t].pc = "idle"]
    /\ lastOp' = "received_message/write"
    /\ UNCHANGED <<callFrame, handles, data_file, msg_seq_no, full_message, rotations>>

\* lines 113-119: close, rename, open the file of the current date, write
Rotate(t) ==
    /\ AtPc(t, "rotate")
    /\ LET current_path == handles[data_file].name
           hs1 == FileClose(handles, data_file)
           rep == ReplaceOpen(current_path)
           rn == OsRename(files, current_path, rep.val)
           newp == generate_filename(now)
           nh == [name |-> newp, closed |-> FALSE]
           w == FileWrite(OpenAppend(rn.files, newp), nh, full_message)
           e == IF rep.err # "none" THEN rep.err
                ELSE IF rn.err # "none" THEN rn.err ELSE w.err
       IN /\ err' = e
          /\ delivered' = Append(delivered,
                                 Delivery(Loc(t).msg, Loc(t).ts, FALSE, TRUE, e))
          /\ IF rep.err # "none"
             THEN /\ handles' = hs1
                  /\ UNCHANGED <<files, data_file, written>>
             ELSE IF rn.err # "none"
             THEN /\ handles' = hs1
                  /\ files' = rn.files
                  /\ UNCHANGED <<data_file, written>>
             ELSE /\ handles' = Append(hs1, nh)
                  /\ data_file' = Len(hs1) + 1
                  /\ files' = w.files
                  /\ written' = IF w.err = "none"
                                THEN Append(written, [path |-> newp, line |-> full_message,
                                                      own |-> Own(t)])
                                ELSE written
    /\ rotations' = rotations + 1
    /\ threads' = [threads EXCEPT !.loc[t].pc = "idle"]
    /\ lastOp' = "received_message/rotate"
    /\ UNCHANGED <<callFrame, msg_seq_no, full_message>>

\* the session is constructed without handshake messages and extra data:
\* neither is read by received_message
NextThreads ==
    \/ WebsocketRecorder_init(<<>>, <<>>)
    \/ Tick
    \/ \E t \in Threads, websocket_msg \in Payloads : Call(t, websocket_msg)
    \/ \E t \in Threads : IncrLoad(t)
    \/ \E t \in Threads : IncrStore(t)
    \/ \E t \in Threads : ReturnSeq(t)
    \/ \E t \in Threads : SetTs(t)
    \/ \E t \in Threads : SetMsg(t)
    \/ \E t \in Threads : Compare(t)
    \/ \E t \in Threads : Write(t)
    \/ \E t \in Threads : Rotate(t)

SpecThreads == Init /\ [][NextThreads]_vars

-----------------------------------------------------------------------------
(* The session on a disk that may refuse a file operation *)

NextFault ==
    \/ \E imo \in InitialMsgOuts, extra_data \in ExtraDatas :
          WebsocketRecorder_init(imo, extra_data)
    \/ \E websocket_msg \in Payloads : received_message(websocket_msg)
    \/ \E websocket_msg \in Payloads : received_message_io_error(websocket_msg)
    \/ \E code \in CloseCodes : closed(code)
    \/ Tick

SpecFault == Init /\ [][NextFault]_vars

-----------------------------------------------------------------------------
(* Vocabulary of the properties *)

ReceivedOps == {"received_message/write", "received_message/rotate"}

\* the template keys that are constant during a session
ConstKeys == {"url", "machine_id", "pid", "ws_name", "session_start"}

\* the keys filled in for every record
PerRecordKeys == {"msg_seq_no", "ts_utc", "websocket_msg"}

\* the lines of a file written by this session
SessionLines(p) == SelectSeq(files[p], LAMBDA r : r # OldLine)

\* the lines this session wrote to path p, in the order of the write calls
WrittenTo(p) ==
    LET ws == SelectSeq(written, LAMBDA w : w.path = p)
    IN [i \in 1..Len(ws) |-> ws[i].line]

\* line is the record of the i-th delivered event
RecordOf(i, line) ==
    /\ line["msg_seq_no"] = i
    /\ line["ts_utc"] = delivered[i].ts
    /\ line["websocket_msg"] = StripNewlines(delivered[i].msg)

IsPrefix(s, t) == Len(s) <= Len(t) /\ \A i \in 1..Len(s) : s[i] = t[i]

OpenHandles == {i \in DOMAIN handles : ~handles[i].closed}

Finalized(p) == [p EXCEPT !.ext = ".json"]

-----------------------------------------------------------------------------
(* Properties *)

\* C1: the msg_seq_no values of the records written to the files, in the
\* order they were written, are 1, 2, 3, ...: the first is 1, each is the
\* previous plus 1, none is skipped or repeated; and the files hold exactly
\* these records.
SequenceMonotonicity ==
    /\ \A i \in 1..Len(written) : written[i].line["msg_seq_no"] = i
    /\ \A p \in DOMAIN files : SessionLines(p) = WrittenTo(p)

\* two records written, with sequence numbers 1 and 2
SequenceMonotonicityWitness ==
    /\ Len(written) = 2
    /\ \E p \in DOMAIN files : Len(SessionLines(p)) = 2

\* the writer was constructed on day D, no close happened, and the delivered
\* events were stamped on day D except the last one, stamped on day D+1
CrossedDayBoundary ==
    /\ lastOp \in ReceivedOps
    /\ Len(delivered) >= 2
    /\ \A i \in 1..Len(delivered) : ~delivered[i].after_close
    /\ \A i \in 1..(Len(delivered) - 1) : TsFirst10(delivered[i].ts) = handles[1].name.date
    /\ TsFirst10(delivered[Len(delivered)].ts) = handles[1].name.date + 1

\* C2: after the first event of day D+1 there are exactly two files: the
\* finalized file of day D holding all and only the day-D records, and the
\* ".open" file of day D+1 holding only the boundary-crossing record.
RotationCorrectness ==
    CrossedDayBoundary =>
        LET n == Len(delivered)
            old == handles[1].name
            fin == Finalized(old)
            new == [old EXCEPT !.date = old.date + 1]
        IN /\ DOMAIN files = {fin, new}
           /\ Len(SessionLines(fin)) = n - 1
           /\ \A i \in 1..(n - 1) : RecordOf(i, SessionLines(fin)[i])
           /\ Len(files[new]) = 1
           /\ RecordOf(n, files[new][1])

\* C3: every event delivered before the connection closes has exactly one
\* record line in exactly one file, and the records are in delivery order,
\* on the same-day path and on the rotation path.
ExactlyOneRecordPerEvent ==
    (\A i \in 1..Len(delivered) : ~delivered[i].after_close) =>
        /\ Len(written) = Len(delivered)
        /\ \A i \in 1..Len(written) : RecordOf(i, written[i].line)
        /\ \A p \in DOMAIN files : SessionLines(p) = WrittenTo(p)

\* C4: closed() closes the open handle and renames nothing: the files are
\* unchanged, so no file without the suffix is created, and when no rotation
\* occurred the file that was open still carries ".open".
PlainCloseDoesNotFinalize ==
    [][lastOp' = "closed" =>
          /\ files' = files
          /\ data_file' = data_file
          /\ handles'[data_file].closed
          /\ rotations = 0 =>
                /\ handles[data_file].name.ext = ".json.open"
                /\ handles[data_file].name \in DOMAIN files'
                /\ Finalized(handles[data_file].name) \notin DOMAIN files']_vars

\* closed() has run on a session that wrote a record and never rotated
PlainCloseWitness ==
    /\ lastOp = "closed"
    /\ rotations = 0
    /\ Len(written) >= 1
    /\ handles[data_file].closed
    /\ handles[data_file].name \in DOMAIN files

\* C5: the file is finalized exactly when rotation occurs or the connection
\* closes: after a rotation or a close the file that was open is stored under
\* its name without ".open", and no other step removes a path.
FinalizedOnRotationOrClose ==
    [][/\ (lastOp' \in {"closed", "received_message/rotate"}
             /\ constructed /\ ~handles[data_file].closed) =>
            /\ handles[data_file].name \notin DOMAIN files'
            /\ Finalized(handles[data_file].name) \in DOMAIN files'
       /\ lastOp' \notin {"closed", "received_message/rotate"} =>
            DOMAIN files \subseteq DOMAIN files']_vars

\* C6: a clock step alone creates, renames and closes nothing; the files,
\* the handles and data_file change only in __init__, received_message and
\* closed.
LazyRotation ==
    [][(files' # files \/ handles' # handles \/ data_file' # data_file) =>
          lastOp' \in {"__init__", "closed"} \cup ReceivedOps]_vars

\* the clock has stepped into a later day than the open file's, and the file
\* of the earlier day is still the only one and still open
LazyRotationWitness ==
    /\ constructed
    /\ lastOp = "tick"
    /\ DatePart(now) > handles[data_file].name.date
    /\ ~handles[data_file].closed
    /\ DOMAIN files = {handles[data_file].name}

\* C7: at most one handle is open in every state, and after the rotation
\* branch has run data_file is a new, open handle and the previous one is
\* closed.
SingleHandleReplacedOnRotation ==
    /\ Cardinality(OpenHandles) <= 1
    /\ (lastOp = "received_message/rotate" /\ ~closed_called) =>
          /\ Len(handles) >= 2
          /\ data_file = Len(handles)
          /\ ~handles[data_file].closed
          /\ \A i \in 1..(data_file - 1) : handles[i].closed

FieldStability ==
    [][/\ constructed =>
            /\ DOMAIN full_message' = DOMAIN full_message
            /\ \A k \in DOMAIN full_message \ PerRecordKeys :
                  full_message'[k] = full_message[k]
       /\ \A p \in DOMAIN files' : \A i \in 1..Len(files'[p]) :
            files'[p][i] # OldLine =>
                \A k \in ConstKeys : files'[p][i][k] = full_message'[k]]_vars

\* two records stamped at different times, with opened and closed called
FieldStabilityWitness ==
    /\ Len(written) = 2
    /\ written[1].line["ts_utc"] # written[2].line["ts_utc"]
    /\ written[1].line["session_start"] = written[2].line["session_start"]
    /\ opened_called
    /\ closed_called

\* C11: opened() passes every message of initial_msg_out to send exactly
\* once, in list order, and nothing when the list is empty; no other callback
\* calls send, so what was sent is the list once opened() has run and nothing
\* before.
HandshakeSentOnceInOrder ==
    [][/\ lastOp' = "opened" => sent' = sent \o initial_msg_out
       /\ lastOp' # "opened" => sent' = sent
       /\ sent' = IF opened_called' THEN initial_msg_out' ELSE <<>>]_vars

\* the two configured messages were sent, and an event and a close followed
HandshakeSentWitness ==
    /\ opened_called
    /\ Len(initial_msg_out) = 2
    /\ sent = initial_msg_out
    /\ sent[1] # sent[2]
    /\ Len(delivered) >= 1
    /\ closed_called

\* C12: the websocket_msg of every written record is the payload of its
\* event with every newline removed and the other characters kept in order,
\* so no record in a file holds a newline in it.
NewlinesStripped ==
    /\ \A i \in 1..Len(written) :
          LET m == delivered[written[i].line["msg_seq_no"]].msg
              out == written[i].line["websocket_msg"]
          IN /\ out = SelectSeq(m, LAMBDA c : c # "\n")
             /\ \A j \in 1..Len(out) : out[j] # "\n"
    /\ \A p \in DOMAIN files : \A i \in 1..Len(SessionLines(p)) :
          \A j \in 1..Len(SessionLines(p)[i]["websocket_msg"]) :
              SessionLines(p)[i]["websocket_msg"][j] # "\n"

\* a payload with a newline between two characters was recorded as the two
\* characters, adjacent
NewlinesStrippedWitness ==
    /\ Len(written) = 1
    /\ delivered[1].msg = <<"a", "\n", "b">>
    /\ written[1].line["websocket_msg"] = <<"a", "b">>
    /\ \E p \in DOMAIN files : Len(SessionLines(p)) = 1

\* the last call of received_message failed and no earlier one had
FirstFailure ==
    /\ lastOp \in ReceivedOps
    /\ Len(delivered) >= 1
    /\ delivered[Len(delivered)].err # "none"
    /\ \A i \in 1..(Len(delivered) - 1) : delivered[i].err = "none"

\* C13: when a file operation of the writer fails, the open file handle is
\* closed and every event delivered before the failing one has its record in
\* the files.
FailureClosesFile ==
    FirstFailure =>
        /\ OpenHandles = {}
        /\ \A i \in 1..(Len(delivered) - 1) :
              \E p \in DOMAIN files : \E j \in 1..Len(files[p]) :
                  files[p][j] # OldLine /\ RecordOf(i, files[p][j])

\* C14: with a file open, the record is appended to the current file exactly
\* when the date of the fresh ts_utc equals the date in the file's name, and
\* otherwise the file is closed and stored under its name without ".open",
\* and the record is the last line of the open file named for a current date.
RotationDecision ==
    [][(lastOp' \in ReceivedOps /\ ~handles[data_file].closed) =>
          LET cur == handles[data_file].name
              rec == full_message'
          IN IF TsFirst10(rec["ts_utc"]) = cur.date
             THEN /\ lastOp' = "received_message/write"
                  /\ files' = [files EXCEPT ![cur] = Append(@, rec)]
                  /\ handles' = handles
             ELSE /\ lastOp' = "received_message/rotate"
                  /\ handles'[data_file].closed
                  /\ cur \notin DOMAIN files'
                  /\ Finalized(cur) \in DOMAIN files'
                  /\ ~handles'[data_file'].closed
                  /\ handles'[data_file'].name.date \in {DatePart(now), DatePart(now')}
                  /\ handles'[data_file'].name.ext = ".json.open"
                  /\ files'[handles'[data_file'].name] # <<>>
                  /\ files'[handles'[data_file'].name][Len(files'[handles'[data_file'].name])] = rec]_vars

CounterCountsCalls ==
    [][/\ constructed' => msg_seq_no' = Len(delivered')
       /\ (constructed /\ lastOp' \in ReceivedOps) => msg_seq_no' = msg_seq_no + 1
       /\ (constructed /\ lastOp' \notin ReceivedOps) => msg_seq_no' = msg_seq_no
       /\ lastOp' = "__init__" => msg_seq_no' = 0]_vars

\* two calls counted: one written, one failed on the rotation path, with
\* opened and closed called
CounterCountsCallsWitness ==
    /\ msg_seq_no = 2
    /\ opened_called
    /\ closed_called
    /\ \E i \in 1..Len(delivered) : delivered[i].branch = "write" /\ delivered[i].err = "none"
    /\ \E i \in 1..Len(delivered) : delivered[i].branch = "rotate" /\ delivered[i].err # "none"

\* C17: a failing file operation of received_message is reported to the
\* caller and ends the call: a refused write raises and stores nothing, and
\* a call that raised has written no record, created or renamed no file and
\* opened no handle.
FailureNotCaughtNorRetried ==
    [][lastOp' \in ReceivedOps =>
          LET e == delivered'[Len(delivered')] IN
          /\ err' = e.err
          /\ (~e.disk_ok /\ e.branch = "write" /\ ~handles[data_file].closed) =>
                err' = "IOError"
          /\ err' # "none" =>
                /\ files' = files
                /\ written' = written
                /\ Len(handles') = Len(handles)
                /\ data_file' = data_file]_vars

\* one call failed on a refused write, and one at the rename of the rotation
FailureNotCaughtWitness ==
    /\ \E i \in 1..Len(delivered) : delivered[i].err = "IOError"
    /\ \E i \in 1..Len(delivered) :
          delivered[i].branch = "rotate" /\ delivered[i].err = "TypeError"

\* the written records number 1, 2, 3, ... in write order, and each carries
\* the counter value, the timestamp and the payload of the call that wrote it
RecordsIntact ==
    \A i \in 1..Len(written) :
        /\ written[i].line["msg_seq_no"] = i
        /\ written[i].line["msg_seq_no"] = written[i].own.seq
        /\ written[i].line["ts_utc"] = written[i].own.ts
        /\ written[i].line["websocket_msg"] = StripNewlines(written[i].own.msg)

\* C18: when every call of received_message ran to completion before the
\* next one started, the written records neither repeat nor skip a
\* msg_seq_no and none carries the fields of another event.
SerializedDeliveryKeepsRecordsIntact ==
    ~threads.overlapped => RecordsIntact

\* two calls overlapped, and both written records carry the same msg_seq_no,
\* the first of them with the payload of the other call
InterleavedCallsCorruptRecords ==
    /\ threads.overlapped
    /\ Len(written) = 2
    /\ written[1].line["msg_seq_no"] = written[2].line["msg_seq_no"]
    /\ written[1].line["websocket_msg"] # StripNewlines(written[1].own.msg)

====
